---- MODULE Spec2Model ----
(***************************************************************************)
(* Model of src/api/tweet.rs: the tweet endpoints of TweetyClient.         *)
(*                                                                         *)
(* Strings that the code assembles with format! are sequences of tokens,   *)
(* so that a URL can be taken apart again: a literal of the source is cut  *)
(* into its scheme, host and path tokens, an identifier is a sequence of   *)
(* one-character tokens.  A JSON value (serde_json::Value) is a record     *)
(* [t, v] tagged with its JSON type; a decoded Rust struct is a plain      *)
(* record of Rust values, so decoding is not the identity.                 *)
(***************************************************************************)
EXTENDS Integers, Sequences, FiniteSets, TLC

VARIABLES op, args, sent, response, result, hosts

vars == <<op, args, sent, response, result, hosts>>

----------------------------------------------------------------------------
(* Bounds of the input sets *)

MaxIds == 2

MaxFieldLen == 2

----------------------------------------------------------------------------
(* Option<T>, Result<T, E>, TweetyError *)

None == [some |-> FALSE]

Some(x) == [some |-> TRUE, val |-> x]

Ok(x) == [ok |-> TRUE, val |-> x]

Err(e) == [ok |-> FALSE, err |-> e]

SerializeError(d) == [kind |-> "Serialize", desc |-> d]

JsonParseError(d) == [kind |-> "JsonParse", desc |-> d]

ApiError(d) == [kind |-> "Api", desc |-> d]

\* err.to_string(): the Display of a TweetyError, a description that
\* carries the error's kind and its own description.
ErrToString(e) == <<e.kind, e.desc>>

----------------------------------------------------------------------------
(* serde_json::Value *)

JBool(b) == [t |-> "bool", v |-> b]

JStr(s) == [t |-> "str", v |-> s]

JArr(s) == [t |-> "arr", v |-> s]

JObj(f) == [t |-> "obj", v |-> f]

EmptyMap == [k \in {} |-> 0]

----------------------------------------------------------------------------
(* Inputs of the calls *)

\* Identifier strings, as sequences of characters, of different lengths.
IdStrings == {<<"7">>, <<"4", "2">>}

IdLists == UNION {[1..n -> IdStrings] : n \in 0..MaxIds}

\* enum Ids { Single(String), Multiple(Vec<String>) }
IdsValues ==
  {[tag |-> "Single", id |-> s] : s \in IdStrings}
    \cup {[tag |-> "Multiple", ids |-> l] : l \in IdLists}

Messages == {"hello", "bye"}

\* The lists of enum values a present field of QueryParams holds.
FieldLists == UNION {[1..n -> {"v"}] : n \in 1..MaxFieldLen}

Field(present, l) == IF present THEN Some(l) ELSE None

\* Every subset of the six fields present, the present ones holding l.
QueryParamsValues ==
  { [tweet_fields |-> Field(1 \in S, l), expansions |-> Field(2 \in S, l),
     media_fields |-> Field(3 \in S, l), poll_fields |-> Field(4 \in S, l),
     user_fields |-> Field(5 \in S, l), place_fields |-> Field(6 \in S, l)] :
    S \in SUBSET (1..6), l \in FieldLists }

ParamsOptions == {None} \cup {Some(q) : q \in QueryParamsValues}

\* PostTweetParams (crate::types::tweet): optional attached media ids.
PostTweetParamsValues == {[media_ids |-> None], [media_ids |-> Some(<<"m1">>)]}

BodyParamsOptions == {None} \cup {Some(b) : b \in PostTweetParamsValues}

----------------------------------------------------------------------------
(* What the dispatch primitive can return: Result<Value, TweetyError> *)

TweetJson == ("edit_history_tweet_ids" :> JArr(<<JStr("42")>>))
                @@ ("id" :> JStr("42")) @@ ("text" :> JStr("hello"))

JsonPool ==
  { JObj("data" :> JObj("deleted" :> JBool(TRUE))),
    JObj("data" :> JObj("deleted" :> JBool(FALSE))),
    JObj(EmptyMap),
    JObj("errors" :> JArr(<<JStr("not found")>>)),
    JObj("data" :> JObj(EmptyMap)),
    JObj("data" :> JObj("deleted" :> JStr("yes"))),
    JObj("data" :> JObj(TweetJson)),
    JObj("data" :> JObj(("id" :> JStr("42")) @@ ("text" :> JStr("hello")))),
    JArr(<<JArr(<<JBool(TRUE)>>)>>) }

\* Failures of the primitive: a non-success status, a network failure.
PrimitiveErrors == {ApiError("HTTP 404"), ApiError("connection refused")}

Outcomes == {Ok(v) : v \in JsonPool} \cup {Err(e) : e \in PrimitiveErrors}

----------------------------------------------------------------------------
(* impl fmt::Display for Ids *)

RECURSIVE Join(_, _)
\* ids.join(sep): the elements with sep between consecutive ones.
Join(ids, sep) ==
  IF ids = <<>> THEN <<>>
  ELSE IF Len(ids) = 1 THEN ids[1]
  ELSE ids[1] \o sep \o Join(Tail(ids), sep)

\* Mutant: the list rendered back to front.
IdsToStringReversed(tweet_id) ==
  IF tweet_id.tag = "Single" THEN tweet_id.id
  ELSE Join([i \in 1..Len(tweet_id.ids) |->
               tweet_id.ids[Len(tweet_id.ids) + 1 - i]], <<",">>)

IdsToString(tweet_id) ==
  IF tweet_id.tag = "Single" THEN tweet_id.id
  ELSE Join(tweet_id.ids, <<",">>)

----------------------------------------------------------------------------
(* QueryParams and its serialization *)

\* The fields of QueryParams in declaration order, under their serde names.
QueryParamsFields(q) ==
  << [name |-> "tweet.fields", value |-> q.tweet_fields],
     [name |-> "expansions",   value |-> q.expansions],
     [name |-> "media.fields", value |-> q.media_fields],
     [name |-> "poll.fields",  value |-> q.poll_fields],
     [name |-> "user.fields",  value |-> q.user_fields],
     [name |-> "place.fields", value |-> q.place_fields] >>

IsPresent(e) == e.value.some

\* Mutant: skip_serializing_if forgotten, an absent field is written empty.
QueryParamsSerializeNoSkip(q) ==
  LET all == QueryParamsFields(q)
  IN  [i \in 1..Len(all) |->
         [name |-> all[i].name,
          value |-> IF all[i].value.some THEN all[i].value.val ELSE <<>>]]

\* derive(Serialize) with skip_serializing_if = "Option::is_none" on every
\* field: the (name, list) pairs handed to the serializer.
QueryParamsSerialize(q) ==
  LET present == SelectSeq(QueryParamsFields(q), IsPresent)
  IN  [i \in 1..Len(present) |->
         [name |-> present[i].name, value |-> present[i].value.val]]

\* One key=value pair of the query string: the list comma-joined.
QueryPair(e) ==
  <<e.name, "=">> \o Join([i \in 1..Len(e.value) |-> <<e.value[i]>>], <<",">>)

\* yaup::to_string: "?" and the pairs joined by "&"; nothing for no pairs.
\* Whether the serializer fails is decided outside this file.
convert_query_to_string(query, fails) ==
  IF fails THEN Err("yaup error")
  ELSE LET pairs == QueryParamsSerialize(query)
       IN  Ok(IF pairs = <<>> THEN <<>>
              ELSE <<"?">> \o Join([i \in 1..Len(pairs) |-> QueryPair(pairs[i])],
                                   <<"&">>))

----------------------------------------------------------------------------
(* serde_json::from_value into the derived response structs *)

\* The value a derived struct visitor reads for one field: by name from an
\* object (unknown keys ignored), by position from an array of exactly n.
StructField(v, name, pos, n) ==
  IF v.t = "obj"
    THEN IF name \in DOMAIN v.v THEN Ok(v.v[name]) ELSE Err("missing field")
  ELSE IF v.t = "arr"
    THEN IF Len(v.v) = n THEN Ok(v.v[pos]) ELSE Err("invalid length")
  ELSE Err("invalid type")

de_bool(v) == IF v.t = "bool" THEN Ok(v.v) ELSE Err("invalid type")

de_String(v) == IF v.t = "str" THEN Ok(v.v) ELSE Err("invalid type")

de_VecString(v) ==
  IF v.t = "arr" /\ \A i \in 1..Len(v.v) : v.v[i].t = "str"
    THEN Ok([i \in 1..Len(v.v) |-> v.v[i].v])
    ELSE Err("invalid type")

\* Mutant: any boolean flag of a successful response is taken as deleted.
de_DeleteDataAlwaysTrue(v) ==
  LET f == StructField(v, "deleted", 1, 1)
  IN  IF ~f.ok THEN f
      ELSE LET deleted == de_bool(f.val)
           IN  IF ~deleted.ok THEN deleted
               ELSE Ok([deleted |-> TRUE])

de_DeleteData(v) ==
  LET f == StructField(v, "deleted", 1, 1)
  IN  IF ~f.ok THEN f
      ELSE LET deleted == de_bool(f.val)
           IN  IF ~deleted.ok THEN deleted
               ELSE Ok([deleted |-> deleted.val])

de_DeleteResponse(v) ==
  LET f == StructField(v, "data", 1, 1)
  IN  IF ~f.ok THEN f
      ELSE LET data == de_DeleteData(f.val)
           IN  IF ~data.ok THEN data ELSE Ok([data |-> data.val])

de_TweetResponse(v) ==
  LET f1 == StructField(v, "edit_history_tweet_ids", 1, 3)
      f2 == StructField(v, "id", 2, 3)
      f3 == StructField(v, "text", 3, 3)
  IN  IF ~f1.ok THEN f1
      ELSE LET ids == de_VecString(f1.val)
           IN  IF ~ids.ok THEN ids
               ELSE IF ~f2.ok THEN f2
               ELSE LET id == de_String(f2.val)
                    IN  IF ~id.ok THEN id
                        ELSE IF ~f3.ok THEN f3
                        ELSE LET text == de_String(f3.val)
                             IN  IF ~text.ok THEN text
                                 ELSE Ok([edit_history_tweet_ids |-> ids.val,
                                          id |-> id.val, text |-> text.val])

de_PostTweetResponseData(v) ==
  LET f == StructField(v, "data", 1, 1)
  IN  IF ~f.ok THEN f
      ELSE LET data == de_TweetResponse(f.val)
           IN  IF ~data.ok THEN data ELSE Ok([data |-> data.val])

\* TweetData (crate::api::mentions): identifier and text are required.
de_TweetData(v) ==
  LET f1 == StructField(v, "id", 1, 2)
      f2 == StructField(v, "text", 2, 2)
  IN  IF ~f1.ok THEN f1
      ELSE LET id == de_String(f1.val)
           IN  IF ~id.ok THEN id
               ELSE IF ~f2.ok THEN f2
               ELSE LET text == de_String(f2.val)
                    IN  IF ~text.ok THEN text
                        ELSE Ok([id |-> id.val, text |-> text.val])

de_LookupResponse(v) ==
  LET f == StructField(v, "data", 1, 1)
  IN  IF ~f.ok THEN f
      ELSE LET data == de_TweetData(f.val)
           IN  IF ~data.ok THEN data ELSE Ok([data |-> data.val])

----------------------------------------------------------------------------
(* impl TweetyClient.  An operation is given its arguments and `out`, what  *)
(* send_request returns for the request it is handed; it yields the        *)
(* requests it handed to send_request, in order, and its own return value. *)

Request(url, method, body) == [url |-> url, method |-> method, body |-> body]

Run(requests, ret) == [sent |-> requests, result |-> ret]

\* Mutant: the primitive's error re-described as an Api error.
get_tweet_Rewrap(tweet_id, out) ==
  LET base_url == <<"https://", "api.x.com", "/2/tweets/", "?ids=">>
                    \o IdsToString(tweet_id)
  IN  Run(<<Request(base_url, "GET", None)>>,
          IF out.ok THEN out ELSE Err(ApiError(ErrToString(out.err))))

get_tweet(tweet_id, out) ==
  LET base_url == <<"https://", "api.x.com", "/2/tweets/", "?ids=">>
                    \o IdsToString(tweet_id)
  IN  Run(<<Request(base_url, "GET", None)>>, out)

get_tweet_info(tweet_id, out) ==
  LET base_url == <<"https://", "api.x.com", "/2/tweets/">> \o tweet_id
  IN  Run(<<Request(base_url, "GET", None)>>, out)

\* Mutant: the serialization error is reported after the request went out.
get_tweet_info_with_params_SendFirst(tweet_id, params, fails, out) ==
  LET base_url0 == <<"https://", "api.x.com", "/2/tweets/">> \o tweet_id
      query_params == IF params.some
                        THEN convert_query_to_string(params.val, fails)
                        ELSE Ok(<<>>)
      decoded == de_LookupResponse(out.val)
  IN  IF ~query_params.ok
        THEN Run(<<Request(base_url0, "GET", None)>>,
                 Err(SerializeError(query_params.err)))
        ELSE Run(<<Request(base_url0 \o query_params.val, "GET", None)>>,
                 IF out.ok
                   THEN IF decoded.ok THEN Ok(decoded.val)
                        ELSE Err(JsonParseError(decoded.err))
                   ELSE Err(ApiError(ErrToString(out.err))))

\* Mutant: a failure of the primitive reported as a parse error.
get_tweet_info_with_params_ParseKind(tweet_id, params, fails, out) ==
  LET base_url0 == <<"https://", "api.x.com", "/2/tweets/">> \o tweet_id
      query_params == IF params.some
                        THEN convert_query_to_string(params.val, fails)
                        ELSE Ok(<<>>)
      decoded == de_LookupResponse(out.val)
  IN  IF ~query_params.ok
        THEN Run(<<>>, Err(SerializeError(query_params.err)))
        ELSE Run(<<Request(base_url0 \o query_params.val, "GET", None)>>,
                 IF out.ok
                   THEN IF decoded.ok THEN Ok(decoded.val)
                        ELSE Err(JsonParseError(decoded.err))
                   ELSE Err(JsonParseError(ErrToString(out.err))))

get_tweet_info_with_params(tweet_id, params, fails, out) ==
  LET base_url0 == <<"https://", "api.x.com", "/2/tweets/">> \o tweet_id
      query_params == IF params.some
                        THEN convert_query_to_string(params.val, fails)
                        ELSE Ok(<<>>)
  IN  IF ~query_params.ok
        THEN Run(<<>>, Err(SerializeError(query_params.err)))
        ELSE LET base_url == base_url0 \o query_params.val
                 decoded == de_LookupResponse(out.val)
             IN  Run(<<Request(base_url, "GET", None)>>,
                     IF out.ok
                       THEN IF decoded.ok THEN Ok(decoded.val)
                            ELSE Err(JsonParseError(decoded.err))
                       ELSE Err(ApiError(ErrToString(out.err))))

\* PostTweetParams::to_json (crate::types::tweet): the text plus the
\* attached media identifiers when there are some.
to_json(body, message) ==
  IF body.media_ids.some
    THEN JObj(("text" :> JStr(message))
              @@ ("media" :> JObj("media_ids" :>
                    JArr([i \in 1..Len(body.media_ids.val) |->
                            JStr(body.media_ids.val[i])]))))
    ELSE JObj("text" :> JStr(message))

\* Mutant: the body built from TweetRequest, with an empty media list.
post_tweet_TweetRequest(message, body_params, out) ==
  LET base_url == <<"https://", "api.twitter.com", "/2/tweets">>
      json_body == IF body_params.some
                     THEN to_json(body_params.val, message)
                     ELSE JObj(("text" :> JStr(message))
                               @@ ("media" :> JObj("media_ids" :> JArr(<<>>))))
      decoded == de_PostTweetResponseData(out.val)
  IN  Run(<<Request(base_url, "POST", Some(json_body))>>,
          IF out.ok
            THEN IF decoded.ok THEN Ok(decoded.val)
                 ELSE Err(JsonParseError(decoded.err))
            ELSE Err(ApiError(ErrToString(out.err))))

\* Mutant: the request is sent a second time when the first one fails.
post_tweet_Retry(message, body_params, out) ==
  LET base_url == <<"https://", "api.twitter.com", "/2/tweets">>
      json_body == IF body_params.some
                     THEN to_json(body_params.val, message)
                     ELSE JObj("text" :> JStr(message))
      request == Request(base_url, "POST", Some(json_body))
      decoded == de_PostTweetResponseData(out.val)
  IN  Run(IF out.ok THEN <<request>> ELSE <<request, request>>,
          IF out.ok
            THEN IF decoded.ok THEN Ok(decoded.val)
                 ELSE Err(JsonParseError(decoded.err))
            ELSE Err(ApiError(ErrToString(out.err))))

post_tweet(message, body_params, out) ==
  LET base_url == <<"https://", "api.twitter.com", "/2/tweets">>
      json_body == IF body_params.some
                     THEN to_json(body_params.val, message)
                     ELSE JObj("text" :> JStr(message))
      decoded == de_PostTweetResponseData(out.val)
  IN  Run(<<Request(base_url, "POST", Some(json_body))>>,
          IF out.ok
            THEN IF decoded.ok THEN Ok(decoded.val)
                 ELSE Err(JsonParseError(decoded.err))
            ELSE Err(ApiError(ErrToString(out.err))))

\* Mutant: the edit sent to the host the lookups use.
edit_tweet_XHost(message, media_id, out) ==
  LET base_url == <<"https://", "api.x.com", "/2/tweets/">> \o media_id
      body == JObj("text" :> JStr(message))
  IN  Run(<<Request(base_url, "PATCH", Some(body))>>, out)

edit_tweet(message, media_id, out) ==
  LET base_url == <<"https://", "api.twitter.com", "/2/tweets/">> \o media_id
      body == JObj("text" :> JStr(message))
  IN  Run(<<Request(base_url, "PATCH", Some(body))>>, out)

delete_tweet(tweet_id, out) ==
  LET url == <<"https://", "api.x.com", "/2/tweets/">> \o tweet_id
      decoded == de_DeleteResponse(out.val)
  IN  Run(<<Request(url, "DELETE", None)>>,
          IF out.ok
            THEN IF decoded.ok THEN Ok(decoded.val)
                 ELSE Err(JsonParseError(decoded.err))
            ELSE Err(out.err))

----------------------------------------------------------------------------
(* The state machine: one call at a time, from its return to the moment    *)
(* the caller takes the result, and the host each operation used.          *)
(*   op, args   the operation that returned and its arguments, or "none"   *)
(*   sent       the requests that call handed to send_request              *)
(*   response   what send_request returned to it, if it was invoked        *)
(*   result     what the call returned                                     *)
(*   hosts      per operation, the host of the last request it dispatched  *)

Ops == {"get_tweet", "get_tweet_info", "get_tweet_info_with_params",
        "post_tweet", "edit_tweet", "delete_tweet"}

UrlHost(url) == url[2]

Init ==
  /\ op = "none"
  /\ args = [none |-> TRUE]
  /\ sent = <<>>
  /\ response = None
  /\ result = None
  /\ hosts = [o \in Ops |-> "unseen"]

Idle == op = "none"

Call(o, a, out, run) ==
  /\ op' = o
  /\ args' = a
  /\ sent' = run.sent
  /\ response' = IF run.sent = <<>> THEN None ELSE Some(out)
  /\ result' = run.result
  /\ hosts' = IF run.sent = <<>> THEN hosts
              ELSE [hosts EXCEPT ![o] = UrlHost(run.sent[1].url)]

GetTweet ==
  /\ Idle
  /\ \E tweet_id \in IdsValues, out \in Outcomes :
    Call("get_tweet", [tweet_id |-> tweet_id], out, get_tweet(tweet_id, out))

GetTweetInfo ==
  /\ Idle
  /\ \E tweet_id \in IdStrings, out \in Outcomes :
    Call("get_tweet_info", [tweet_id |-> tweet_id], out,
         get_tweet_info(tweet_id, out))

GetTweetInfoWithParams ==
  /\ Idle
  /\ \E tweet_id \in IdStrings, params \in ParamsOptions, fails \in BOOLEAN,
     out \in Outcomes :
    /\ fails => params.some
    /\ Call("get_tweet_info_with_params",
            [tweet_id |-> tweet_id, params |-> params, fails |-> fails], out,
            get_tweet_info_with_params(tweet_id, params, fails, out))

PostTweet ==
  /\ Idle
  /\ \E message \in Messages, body_params \in BodyParamsOptions,
     out \in Outcomes :
    Call("post_tweet", [message |-> message, body_params |-> body_params],
         out, post_tweet(message, body_params, out))

EditTweet ==
  /\ Idle
  /\ \E message \in Messages, media_id \in IdStrings, out \in Outcomes :
    Call("edit_tweet", [message |-> message, media_id |-> media_id], out,
         edit_tweet(message, media_id, out))

DeleteTweet ==
  /\ Idle
  /\ \E tweet_id \in IdStrings, out \in Outcomes :
    Call("delete_tweet", [tweet_id |-> tweet_id], out,
         delete_tweet(tweet_id, out))

\* The caller takes the returned value; nothing of the call outlives it.
Return ==
  /\ ~Idle
  /\ op' = "none"
  /\ args' = [none |-> TRUE]
  /\ sent' = <<>>
  /\ response' = None
  /\ result' = None
  /\ UNCHANGED hosts

Next ==
  \/ Return
  \/ GetTweet
  \/ GetTweetInfo
  \/ GetTweetInfoWithParams
  \/ PostTweet
  \/ EditTweet
  \/ DeleteTweet

Spec == Init /\ [][Next]_vars

----------------------------------------------------------------------------
(* Observers used by the properties *)

RECURSIVE TotalLen(_)
TotalLen(l) == IF l = <<>> THEN 0 ELSE Len(l[1]) + TotalLen(Tail(l))

\* Position in the joined string at which the i-th identifier starts.
StartOf(l, i) == 1 + TotalLen(SubSeq(l, 1, i - 1)) + (i - 1)

TheRequest == sent[1]

\* The tokens of a URL after its first n tokens.
UrlAfter(url, n) == SubSeq(url, n + 1, Len(url))

\* The parameter names of a query string: the tokens followed by "=".
ParamNames(qs) == {qs[i] : i \in {j \in 1..(Len(qs) - 1) : qs[j + 1] = "="}}

PresentNames(q) ==
  {n \in {"tweet.fields", "expansions", "media.fields", "poll.fields",
          "user.fields", "place.fields"} :
     \/ n = "tweet.fields" /\ q.tweet_fields.some
     \/ n = "expansions"   /\ q.expansions.some
     \/ n = "media.fields" /\ q.media_fields.some
     \/ n = "poll.fields"  /\ q.poll_fields.some
     \/ n = "user.fields"  /\ q.user_fields.some
     \/ n = "place.fields" /\ q.place_fields.some}

PrimitiveFailed == response.some /\ ~response.val.ok

PrimitiveSucceeded == response.some /\ response.val.ok

----------------------------------------------------------------------------
(* C1 *)

\* C1: get_tweet dispatches one GET whose 'ids' query value is the rendered
\* Ids: for Single(id) exactly id; for a non-empty Multiple(list) the
\* identifiers in their original order, each at its place, with one comma
\* between consecutive ones and none before the first or after the last.
C1_IdsCommaJoined ==
  op = "get_tweet" =>
    LET id == args.tweet_id
        q  == UrlAfter(TheRequest.url, 4)
    IN  /\ Len(sent) = 1
        /\ TheRequest.method = "GET"
        /\ TheRequest.url[4] = "?ids="
        /\ id.tag = "Single" => q = id.id
        /\ (id.tag = "Multiple" /\ id.ids # <<>>) =>
             /\ Len(q) = TotalLen(id.ids) + Len(id.ids) - 1
             /\ \A i \in 1..Len(id.ids) :
                  SubSeq(q, StartOf(id.ids, i),
                         StartOf(id.ids, i) + Len(id.ids[i]) - 1) = id.ids[i]
             /\ \A i \in 1..(Len(id.ids) - 1) :
                  q[StartOf(id.ids, i) + Len(id.ids[i])] = ","

\* A list of two different identifiers was looked up.
C1_Witness ==
  /\ op = "get_tweet"
  /\ args.tweet_id.tag = "Multiple"
  /\ Len(args.tweet_id.ids) = 2
  /\ args.tweet_id.ids[1] # args.tweet_id.ids[2]
  /\ Len(sent) = 1

----------------------------------------------------------------------------
(* C2 *)

LookupBase == <<"https://", "api.x.com", "/2/tweets/">>

----------------------------------------------------------------------------
(* C3 *)

TypedOps == {"get_tweet_info_with_params", "post_tweet", "delete_tweet"}

HasField(obj, name, type) ==
  /\ obj.t = "obj"
  /\ name \in DOMAIN obj.v
  /\ obj.v[name].t = type

\* A response with a 'data' object that has the fields operation o requires.
WellFormedFor(o, v) ==
  /\ v.t = "obj"
  /\ "data" \in DOMAIN v.v
  /\ CASE o = "delete_tweet" -> HasField(v.v["data"], "deleted", "bool")
       [] o = "post_tweet" ->
            /\ HasField(v.v["data"], "edit_history_tweet_ids", "arr")
            /\ HasField(v.v["data"], "id", "str")
            /\ HasField(v.v["data"], "text", "str")
       [] OTHER ->
            /\ HasField(v.v["data"], "id", "str")
            /\ HasField(v.v["data"], "text", "str")

\* C3: when the primitive succeeds with a JSON value that lacks the 'data'
\* key, or whose 'data' lacks a required field or has one of the wrong
\* type, a typed operation returns an error of the JsonParse kind.
C3_MalformedIsJsonParse ==
  (op \in TypedOps /\ PrimitiveSucceeded
     /\ ~WellFormedFor(op, response.val.val)) =>
    (~result.ok /\ result.err.kind = "JsonParse")

\* C3 restricted to responses that are JSON objects at both levels: there
\* the malformed ones do end in a JsonParse error.
C3_MalformedObjectIsJsonParse ==
  (PrimitiveSucceeded /\ response.val.val.t = "obj"
     /\ ("data" \in DOMAIN response.val.val.v =>
           response.val.val.v["data"].t = "obj"))
    => C3_MalformedIsJsonParse

----------------------------------------------------------------------------
(* C4 *)

\* C4: when the primitive returns an error, the operation returns an error
\* of the Api kind: not Ok, not JsonParse, not Serialize.
C4_PrimitiveFailureIsApi ==
  (~Idle /\ PrimitiveFailed) => (~result.ok /\ result.err.kind = "Api")

\* The typed lookup got a failure from the primitive.
C4_Witness ==
  /\ op = "get_tweet_info_with_params"
  /\ PrimitiveFailed
  /\ ~result.ok

----------------------------------------------------------------------------
(* C5 *)

\* C5: when serializing the query parameters fails, the typed lookup returns
\* a Serialize error without having invoked the primitive; and no call that
\* invoked the primitive returns a Serialize error.
C5_SerializeBeforeDispatch ==
  /\ (op = "get_tweet_info_with_params" /\ args.fails) =>
       /\ ~result.ok
       /\ result.err.kind = "Serialize"
       /\ sent = <<>>
       /\ ~response.some
  /\ (~Idle /\ sent # <<>> /\ ~result.ok) => result.err.kind # "Serialize"

\* A call whose query serialization failed has returned.
C5_Witness ==
  /\ op = "get_tweet_info_with_params"
  /\ args.fails
  /\ ~result.ok

----------------------------------------------------------------------------
(* C6 *)

\* C6: post_tweet without optional parameters dispatches one POST whose body
\* is the object with the single key "text" holding the message; with
\* parameters the body is what to_json makes of them and the message.
C6_PostBody ==
  op = "post_tweet" =>
    /\ Len(sent) = 1
    /\ TheRequest.method = "POST"
    /\ TheRequest.body.some
    /\ ~args.body_params.some =>
         /\ TheRequest.body.val.t = "obj"
         /\ DOMAIN TheRequest.body.val.v = {"text"}
         /\ TheRequest.body.val.v["text"] = JStr(args.message)
    /\ args.body_params.some =>
         TheRequest.body.val = to_json(args.body_params.val, args.message)

\* A tweet was posted without optional parameters.
C6_Witness ==
  /\ op = "post_tweet"
  /\ ~args.body_params.some
  /\ Len(sent) = 1

----------------------------------------------------------------------------
(* C7 *)

DeletedEnvelope(b) == JObj("data" :> JObj("deleted" :> JBool(b)))

\* C7: delete_tweet dispatches one DELETE without body to the URL whose path
\* ends in the tweet identifier, and when the primitive returns
\* {"data": {"deleted": b}} it returns Ok with the flag b.
C7_DeleteDecodesFlag ==
  op = "delete_tweet" =>
    /\ Len(sent) = 1
    /\ TheRequest.method = "DELETE"
    /\ ~TheRequest.body.some
    /\ TheRequest.url[3] = "/2/tweets/"
    /\ UrlAfter(TheRequest.url, 3) = args.tweet_id
    /\ \A b \in BOOLEAN :
         response.val = Ok(DeletedEnvelope(b)) =>
           (result.ok /\ result.val.data.deleted = b)

\* A deletion came back with the flag false.
C7_WitnessFalse ==
  /\ op = "delete_tweet"
  /\ response.val = Ok(DeletedEnvelope(FALSE))
  /\ result.ok

----------------------------------------------------------------------------
(* C8 *)

UntypedOps == {"get_tweet", "get_tweet_info", "edit_tweet"}

\* C8: an untyped operation returns what the primitive returned, the same
\* JSON value on success and the same error (kind and description) on
\* failure.
C8_UntypedPassThrough ==
  op \in UntypedOps => (response.some /\ result = response.val)

\* An untyped lookup returned the primitive's error.
C8_WitnessFailure ==
  /\ op = "get_tweet"
  /\ PrimitiveFailed
  /\ ~result.ok

----------------------------------------------------------------------------
(* C9 *)

SerializationFailed == op = "get_tweet_info_with_params" /\ args.fails

\* C9: a call invokes the primitive at most once, and exactly once unless
\* query serialization failed; in particular a call to which the primitive
\* returned an error made one invocation, not two.
C9_OneDispatchPerCall ==
  ~Idle =>
    /\ Len(sent) <= 1
    /\ Len(sent) = (IF SerializationFailed THEN 0 ELSE 1)
    /\ response.some <=> Len(sent) = 1
    /\ PrimitiveFailed => Len(sent) = 1

\* A post failed at the primitive and has returned.
C9_Witness ==
  /\ op = "post_tweet"
  /\ PrimitiveFailed
  /\ ~result.ok

----------------------------------------------------------------------------
(* C10 *)

AllSeen == \A o \in Ops : hosts[o] # "unseen"

\* C10 as claimed: among the six operations exactly one uses a host that
\* differs from the host all the others use.
C10_ExactlyOneHostDiffers ==
  AllSeen =>
    \E o \in Ops :
      /\ \A p, q \in Ops \ {o} : hosts[p] = hosts[q]
      /\ \A p \in Ops \ {o} : hosts[o] # hosts[p]

\* C10 amended: exactly two operations, post_tweet and edit_tweet, use a
\* host (the same for both) that differs from the one host the other four
\* operations use.
C10_TwoHostsDiffer ==
  AllSeen =>
    LET others == {o \in Ops : hosts[o] # hosts["get_tweet"]}
    IN  /\ others = {"post_tweet", "edit_tweet"}
        /\ hosts["post_tweet"] = hosts["edit_tweet"]

\* Every operation has dispatched a request.
C10_Witness == AllSeen /\ op = "edit_tweet"

====
